---- MODULE Spec2Model ----
(***************************************************************************)
(* The pairing logic of santa.py: _build_forbidden_set, _find_assignments  *)
(* with its nested backtrack, the retry loop of generate_pairings and the  *)
(* uniqueness check of main.                                               *)
(*                                                                         *)
(* The recursion of backtrack is modelled by an explicit stack of frames,  *)
(* one per active call.  A frame holds the call's locals: index,           *)
(* remaining, the shuffled candidates and the position of its for loop.    *)
(* The dict `assignment` is one object shared by all calls, as in the      *)
(* code.  random.shuffle is a nondeterministic choice among all            *)
(* permutations of the list.                                               *)
(***************************************************************************)
EXTENDS Integers, Sequences, FiniteSets, TLC

VARIABLES
    PARTICIPANTS,      \* santa.PARTICIPANTS: list of names
    FORBIDDEN_PAIRS,   \* santa.FORBIDDEN_PAIRS: list of <<a, b>>
    ALLOW_RECIPROCAL,  \* santa.ALLOW_RECIPROCAL
    pc,                \* where the program is
    caller,            \* who called _find_assignments
    forbidden,         \* the set built by _build_forbidden_set
    attempts,          \* iterations of generate_pairings' loop started
    shuffled,          \* the giver order of the current attempt
    stack,             \* the active calls of backtrack, outermost first
    assignment,        \* the dict shared by the calls of one attempt
    result             \* what _find_assignments last returned

vars == <<PARTICIPANTS, FORBIDDEN_PAIRS, ALLOW_RECIPROCAL, pc, caller,
          forbidden, attempts, shuffled, stack, assignment, result>>

config == <<PARTICIPANTS, FORBIDDEN_PAIRS, ALLOW_RECIPROCAL>>

----------------------------------------------------------------------------
(* Values                                                                  *)

\* Python's None, as a value that is no dict keyed by names.
None == [none |-> "none"]

\* The empty dict {}.
EmptyDict == [n \in {} |-> "A"]

\* bool(x) of an Optional[Dict]: None and the empty dict are falsy.
Truthy(x) == x # None /\ DOMAIN x # {}

Range(s) == {s[i] : i \in DOMAIN s}

\* d[k] = v on a dict.
DictSet(d, k, v) == [n \in DOMAIN d \cup {k} |-> IF n = k THEN v ELSE d[n]]

\* Mutant of DictPop: the entry is left in place.
DictPopKeeps(d, k) == d

\* d.pop(k, None) on a dict.
DictPop(d, k) == [n \in DOMAIN d \ {k} |-> d[n]]

\* d.get(k) == v, for v a name (d.get(k) is None when k is absent).
DictGetIs(d, k, v) == k \in DOMAIN d /\ d[k] = v

\* Every outcome of random.shuffle(s).
Shuffles(s) ==
    {[i \in 1..Len(s) |-> s[p[i]]] : p \in Permutations(1..Len(s))}

----------------------------------------------------------------------------
(* Pairing logic                                                           *)

\* Mutant of _build_forbidden_set: the first declaration is skipped.
BuildSkipsFirst(pairs) ==
    {{pairs[i][1], pairs[i][2]} : i \in DOMAIN pairs \ {1}}

\* _build_forbidden_set: {frozenset((a, b)) for a, b in pairs}
_build_forbidden_set(pairs) == {{pairs[i][1], pairs[i][2]} : i \in DOMAIN pairs}

\* Mutant of Candidates: the giver is not filtered out.
CandidatesWithSelf(giver, remaining) ==
    SelectSeq(remaining, LAMBDA r : {giver, r} \notin forbidden)

\* Mutant of Candidates: forbidden pairs are not filtered out.
CandidatesWithForbidden(giver, remaining) ==
    SelectSeq(remaining, LAMBDA r : r # giver)

\* The list comprehension of backtrack: the recipients still in the pool
\* that are not the giver and not forbidden to the giver.
Candidates(giver, remaining) ==
    SelectSeq(remaining, LAMBDA r : r # giver /\ {giver, r} \notin forbidden)

\* Mutant of NextRemaining: the claimed recipient stays in the pool.
NextRemainingKeeps(remaining, recipient) == remaining

\* next_remaining = [r for r in remaining if r != recipient]
NextRemaining(remaining, recipient) ==
    SelectSeq(remaining, LAMBDA r : r # recipient)

\* Mutant of ReciprocalBlocked: the dict is asked about the giver.
ReciprocalBlockedForward(giver, recipient) ==
    ~ALLOW_RECIPROCAL /\ DictGetIs(assignment, giver, recipient)

\* The reciprocity test of the for loop: the candidate is skipped.
ReciprocalBlocked(giver, recipient) ==
    ~ALLOW_RECIPROCAL /\ DictGetIs(assignment, recipient, giver)

\* The locals of a call backtrack(index, remaining, assignment) once its
\* candidates are shuffled; pos is the for loop's position in candidates.
Frame(index, remaining, candidates) ==
    [index |-> index, remaining |-> remaining,
     candidates |-> candidates, pos |-> 1]

Top == stack[Len(stack)]

\* giver = shuffled[index], for the 0-based index of a frame.
GiverOf(frame) == shuffled[frame.index + 1]

\* The for loop of the top call still has a candidate to try.
HasCandidate ==
    /\ pc = "backtrack"
    /\ stack # <<>>
    /\ Top.pos <= Len(Top.candidates)

\* The top frame with its for loop moved to the next candidate.
Advance(frame) == [frame EXCEPT !.pos = @ + 1]

\* _find_assignments returns r.  In generate_pairings r is the loop's
\* local `assignment`: a truthy r is returned to main, a falsy one (None
\* or the empty dict) lets the loop go on.  A direct caller just gets r.
ReturnFromFind(r) ==
    /\ result' = r
    /\ pc' = IF caller = "generate_pairings" /\ ~Truthy(r)
             THEN "generate_pairings"
             ELSE "returned"

\* The body of _find_assignments up to the first call of backtrack: both
\* shuffles, then backtrack(0, available, {}), which returns the empty
\* assignment at once when there is no giver.
EnterFind ==
    \E sh \in Shuffles(PARTICIPANTS), available \in Shuffles(PARTICIPANTS) :
        /\ shuffled' = sh
        /\ assignment' = EmptyDict
        /\ IF Len(sh) = 0
           THEN /\ stack' = <<>>
                /\ ReturnFromFind(EmptyDict)
           ELSE /\ \E c \in Shuffles(Candidates(sh[1], available)) :
                       stack' = <<Frame(0, available, c)>>
                /\ pc' = "backtrack"
                /\ result' = result

----------------------------------------------------------------------------
(* Actions                                                                 *)

max_attempts == 5000

\* Mutant of HasDuplicates: only neighbours are compared.
HasAdjacentDuplicates(participants) ==
    \E i \in 1..(Len(participants) - 1) : participants[i] = participants[i + 1]

\* len(set(participants)) != len(participants)
HasDuplicates(participants) ==
    Cardinality(Range(participants)) # Len(participants)

\* main: the uniqueness check, then generate_pairings up to its loop.
Main ==
    /\ pc = "main"
    /\ IF HasDuplicates(PARTICIPANTS)
       THEN /\ pc' = "ValueError"
            /\ UNCHANGED forbidden
       ELSE /\ pc' = "generate_pairings"
            /\ forbidden' = _build_forbidden_set(FORBIDDEN_PAIRS)
    /\ caller' = "generate_pairings"
    /\ UNCHANGED <<config, attempts, shuffled, stack, assignment, result>>

\* One iteration of `for _ in range(max_attempts)` starts.
Attempt ==
    /\ pc = "generate_pairings"
    /\ attempts < max_attempts
    /\ attempts' = attempts + 1
    /\ EnterFind
    /\ UNCHANGED <<config, caller, forbidden>>

\* The loop of generate_pairings is over: raise RuntimeError.
Infeasible ==
    /\ pc = "generate_pairings"
    /\ attempts = max_attempts
    /\ pc' = "RuntimeError"
    /\ UNCHANGED <<config, caller, forbidden, attempts, shuffled, stack,
                   assignment, result>>

\* A direct call _find_assignments(participants, forbidden, allow).
CallFind ==
    /\ pc = "call"
    /\ EnterFind
    /\ UNCHANGED <<config, caller, forbidden, attempts>>

\* for recipient in candidates: the reciprocity test says continue.
SkipReciprocal ==
    /\ HasCandidate
    /\ ReciprocalBlocked(GiverOf(Top), Top.candidates[Top.pos])
    /\ stack' = [stack EXCEPT ![Len(stack)] = Advance(@)]
    /\ UNCHANGED <<config, pc, caller, forbidden, attempts, shuffled,
                   assignment, result>>

\* assignment[giver] = recipient, then the call backtrack(index + 1, ...)
\* for a giver that exists: the callee filters and shuffles its candidates.
Place ==
    /\ HasCandidate
    /\ LET giver == GiverOf(Top)
           recipient == Top.candidates[Top.pos]
           next_remaining == NextRemaining(Top.remaining, recipient)
       IN /\ ~ReciprocalBlocked(giver, recipient)
          /\ Top.index + 1 # Len(shuffled)
          /\ assignment' = DictSet(assignment, giver, recipient)
          /\ \E c \in Shuffles(Candidates(shuffled[Top.index + 2],
                                          next_remaining)) :
                 stack' = Append(stack, Frame(Top.index + 1, next_remaining, c))
    /\ UNCHANGED <<config, pc, caller, forbidden, attempts, shuffled, result>>

\* assignment[giver] = recipient for the last giver: the callee returns the
\* assignment (index == len(shuffled)), and every caller up the stack
\* returns it in turn (if result: return result).
Complete ==
    /\ HasCandidate
    /\ LET giver == GiverOf(Top)
           recipient == Top.candidates[Top.pos]
           done == DictSet(assignment, giver, recipient)
       IN /\ ~ReciprocalBlocked(giver, recipient)
          /\ Top.index + 1 = Len(shuffled)
          /\ assignment' = done
          /\ IF Truthy(done)
             THEN /\ stack' = <<>>
                  /\ ReturnFromFind(done)
             ELSE /\ stack' = [stack EXCEPT ![Len(stack)] = Advance(@)]
                  /\ UNCHANGED <<pc, result>>
    /\ UNCHANGED <<config, caller, forbidden, attempts, shuffled>>

\* The for loop of the top call is over: return None.  The caller, if any,
\* sees a falsy result, pops its giver and moves to its next candidate;
\* the outermost call's None is the result of _find_assignments.
Exhausted ==
    /\ pc = "backtrack"
    /\ stack # <<>>
    /\ Top.pos > Len(Top.candidates)
    /\ IF Len(stack) = 1
       THEN /\ stack' = <<>>
            /\ assignment' = assignment
            /\ ReturnFromFind(None)
       ELSE LET up == stack[Len(stack) - 1]
            IN /\ assignment' = DictPop(assignment, GiverOf(up))
               /\ stack' = [SubSeq(stack, 1, Len(stack) - 1)
                               EXCEPT ![Len(stack) - 1] = Advance(up)]
               /\ UNCHANGED <<pc, result>>
    /\ UNCHANGED <<config, caller, forbidden, attempts, shuffled>>

----------------------------------------------------------------------------
(* Inputs and specifications                                               *)

MaxPairs == 2

\* The declarations a forbidden-pair list is made of.
PairPool == {<<"A", "B">>, <<"B", "A">>}

\* Every list of at most n declarations.
PairLists(n) == UNION {[1..k -> PairPool] : k \in 0..n}

\* Rosters without a repeated name, of every size up to four.  Both
\* shuffles erase the order the names are listed in.
UniqueRosters ==
    {<<>>, <<"A">>, <<"A", "B">>, <<"A", "B", "C">>, <<"A", "B", "C", "D">>}

\* The configuration, and the program about to run main (start = "main")
\* or about to call _find_assignments on the configuration, with the
\* forbidden set built from the declarations (start = "call").
InitWith(rosters, pairs, start) ==
    /\ PARTICIPANTS \in rosters
    /\ FORBIDDEN_PAIRS \in pairs
    /\ ALLOW_RECIPROCAL \in BOOLEAN
    /\ pc = start
    /\ caller = IF start = "call" THEN "direct" ELSE "generate_pairings"
    /\ forbidden = IF start = "call"
                   THEN _build_forbidden_set(FORBIDDEN_PAIRS) ELSE {}
    /\ attempts = 0
    /\ shuffled = <<>>
    /\ stack = <<>>
    /\ assignment = EmptyDict
    /\ result = None

InitSearch == InitWith(UniqueRosters, PairLists(MaxPairs), "call")

NextSearch == CallFind \/ SkipReciprocal \/ Place \/ Complete \/ Exhausted

SearchSpec == InitSearch /\ [][NextSearch]_vars

\* The rosters given to main.  An input with no valid assignment runs all
\* max_attempts attempts, so the rosters on which the declarations below
\* can leave none are short; four names always have a valid assignment
\* here.  The search over every roster of up to four names is SearchSpec's.
MainRosters ==
    {<<>>, <<"A">>, <<"A", "B">>, <<"A", "B", "C", "D">>,
     <<"A", "A">>, <<"A", "B", "A">>}

\* The declarations given to main: none, one, and the pair declared both
\* ways round.
MainPairLists ==
    {<<>>, <<(<<"A", "B">>)>>, <<(<<"A", "B">>), (<<"B", "A">>)>>}

Init == InitWith(MainRosters, MainPairLists, "main")

Next ==
    \/ Main
    \/ Attempt
    \/ Infeasible
    \/ SkipReciprocal
    \/ Place
    \/ Complete
    \/ Exhausted

Spec == Init /\ [][Next]_vars

\* The rosters of MainRosters on which some declarations leave no valid
\* assignment, and those main rejects.
ShortRosters == {r \in MainRosters : Len(r) <= 3}

InitShort == InitWith(ShortRosters, MainPairLists, "main")

\* The program is single-threaded and never waits: a step that can be
\* taken is taken.
FairSpec == InitShort /\ [][Next]_vars /\ WF_vars(Next)

----------------------------------------------------------------------------
(* The data model's invariants, stated on the inputs as declared          *)

Participants == Range(PARTICIPANTS)

\* Some name is listed twice.
DuplicateRoster ==
    \E i, j \in DOMAIN PARTICIPANTS : i # j /\ PARTICIPANTS[i] = PARTICIPANTS[j]

\* Invariants 1 and 2: every participant gives once and receives once.
IsBijection(a) ==
    /\ DOMAIN a = Participants
    /\ {a[g] : g \in DOMAIN a} = Participants
    /\ \A g, h \in DOMAIN a : a[g] = a[h] => g = h

\* Invariant 3.
NoSelf(a) == \A g \in DOMAIN a : a[g] # g

\* The pair was declared forbidden, in this order.
Declared(x, y) ==
    \E i \in DOMAIN FORBIDDEN_PAIRS : FORBIDDEN_PAIRS[i] = <<x, y>>

\* Invariant 4: no giver is paired with someone declared forbidden to
\* them, whichever way round the pair was declared.
NoForbidden(a) ==
    \A g \in DOMAIN a : ~Declared(g, a[g]) /\ ~Declared(a[g], g)

\* Invariant 5, for the policy that disallows mutual pairs.
NoMutual(a) ==
    \A g \in DOMAIN a : ~(a[g] \in DOMAIN a /\ a[a[g]] = g)

\* Every assignment that satisfies the five invariants.
ValidAssignments ==
    {a \in [Participants -> Participants] :
        /\ IsBijection(a)
        /\ NoSelf(a)
        /\ NoForbidden(a)
        /\ ALLOW_RECIPROCAL \/ NoMutual(a)}

\* An assignment came back, from _find_assignments or generate_pairings.
Returned == pc = "returned" /\ result # None

----------------------------------------------------------------------------
(* Claims                                                                  *)

\* C1: every assignment returned is a bijection on the participant set:
\* its givers are the participants and its recipients are the
\* participants, each used once.
C1_Bijection == Returned => IsBijection(result)

C1_Witness ==
    /\ Returned
    /\ Len(PARTICIPANTS) = 4
    /\ Cardinality({result[g] : g \in DOMAIN result}) = 4

\* C2: no participant is assigned to themselves, in the assignment
\* returned and in every partial assignment of the search.
C2_NoSelfAssignment == NoSelf(assignment) /\ (Returned => NoSelf(result))

C2_Witness ==
    /\ Returned
    /\ Len(PARTICIPANTS) = 3
    /\ \A g \in Participants : result[g] # g

\* C3: no giver of a returned assignment is paired with a participant
\* declared forbidden to them, whatever the order of the declaration and
\* however often it was made.
C3_ForbiddenExcluded == Returned => NoForbidden(result)

C3_Witness ==
    /\ Returned
    /\ FORBIDDEN_PAIRS = <<(<<"B", "A">>), (<<"B", "A">>)>>
    /\ Len(PARTICIPANTS) = 4
    /\ result["A"] # "B" /\ result["B"] # "A"

\* C4: with reciprocity disallowed, a returned assignment holds no two
\* participants who give to each other.
C4_NoReciprocal == (Returned /\ ~ALLOW_RECIPROCAL) => NoMutual(result)

C4_Witness ==
    /\ Returned
    /\ ~ALLOW_RECIPROCAL
    /\ Len(PARTICIPANTS) = 4
    /\ \A g \in Participants : result[result[g]] # g

\* No assignment satisfies the invariants, on a roster main accepts.
NoValid == ~DuplicateRoster /\ ValidAssignments = {}

\* C5: when no valid assignment exists, generate_pairings returns
\* nothing, makes at most max_attempts attempts and ends by raising
\* RuntimeError.
C5_InfeasibleRaises ==
    /\ [](NoValid => pc # "returned" /\ attempts <= max_attempts)
    /\ [](NoValid => <>(pc = "RuntimeError"))

C5_Witness ==
    /\ pc = "RuntimeError"
    /\ PARTICIPANTS = <<"A", "B">>
    /\ FORBIDDEN_PAIRS = <<(<<"A", "B">>), (<<"B", "A">>)>>
    /\ ALLOW_RECIPROCAL

\* C6: with a duplicate in the roster the run ends in the configuration
\* error with no attempt started and no assignment produced.
C6_DuplicatesFatal ==
    DuplicateRoster =>
        /\ pc \in {"main", "ValueError"}
        /\ attempts = 0
        /\ stack = <<>>
        /\ assignment = EmptyDict
        /\ result = None

C6_Witness ==
    /\ pc = "ValueError"
    /\ PARTICIPANTS = <<"A", "B", "A">>

\* C7: attempts run one after another and never number more than
\* max_attempts; the assignment of the first attempt that produced one is
\* returned and no attempt follows it; RuntimeError is raised only after
\* max_attempts attempts that all failed, that is, returned None.
C7_DriverLoop ==
    /\ [](/\ attempts <= max_attempts
          /\ pc = "returned" => result # None
          /\ pc = "RuntimeError" => attempts = max_attempts /\ result = None)
    /\ [][/\ attempts' # attempts =>
                /\ attempts' = attempts + 1
                /\ pc = "generate_pairings"
                /\ stack = <<>>
                /\ result = None
          /\ pc \in {"returned", "RuntimeError"} => attempts' = attempts]_vars

\* C7, with an attempt counted as failed when its result is falsy (None
\* or the empty dict), which is the loop's own test.
C7_LoopByTruthiness ==
    /\ [](/\ attempts <= max_attempts
          /\ pc = "returned" => Truthy(result)
          /\ pc = "RuntimeError" => attempts = max_attempts /\ ~Truthy(result))
    /\ [][/\ attempts' # attempts =>
                /\ attempts' = attempts + 1
                /\ pc = "generate_pairings"
                /\ stack = <<>>
                /\ ~Truthy(result)
          /\ pc \in {"returned", "RuntimeError"} => attempts' = attempts]_vars

C7_TruthinessWitness ==
    /\ pc = "returned"
    /\ attempts = 1
    /\ Truthy(result)

\* C8: generate_pairings raises RuntimeError only when no valid
\* assignment exists.
C8_InfeasibleOnlyWhenNoValid == pc = "RuntimeError" => ValidAssignments = {}

\* C8, for one call of _find_assignments: it returns None only when no
\* valid assignment exists.
C8_ExhaustiveNonEmpty ==
    (pc = "returned" /\ result = None) => ValidAssignments = {}

C8_NonEmptyWitness ==
    /\ pc = "returned"
    /\ result = None
    /\ Len(PARTICIPANTS) = 3

\* The assignment the frames below the top one have placed: giver j's
\* recipient is the candidate its frame's for loop stands at.
PlacedBelowTop ==
    [g \in {shuffled[j] : j \in 1..(Len(stack) - 1)} |->
        LET j == CHOOSE k \in 1..(Len(stack) - 1) : shuffled[k] = g
        IN stack[j].candidates[stack[j].pos]]

\* C9: during the search the shared assignment holds exactly the choices
\* of the calls below the top one, and each call's pool is the
\* participants minus the recipients placed before it; a call that
\* returns failure leaves the assignment as it was on entry, removes only
\* its caller's tentative choice and leaves the caller's pool and every
\* lower frame untouched; a failed attempt ends with an empty assignment.
C9_UndoRestores ==
    /\ [](pc = "backtrack" =>
            /\ assignment = PlacedBelowTop
            /\ \A j \in 1..Len(stack) :
                  /\ stack[j].index = j - 1
                  /\ Range(stack[j].remaining) =
                        Participants \
                            {assignment[shuffled[k]] : k \in 1..(j - 1)})
    /\ []((pc = "returned" /\ result = None) =>
            assignment = EmptyDict /\ stack = <<>>)
    /\ [][(pc = "backtrack" /\ pc' = "backtrack") =>
            LET n == Len(stack)
                m == Len(stack')
            IN /\ m >= n =>
                    /\ SubSeq(stack', 1, n - 1) = SubSeq(stack, 1, n - 1)
                    /\ \A g \in DOMAIN assignment : 
                          g \in DOMAIN assignment' /\ assignment'[g] = assignment[g]
               /\ m < n =>
                    /\ m = n - 1
                    /\ SubSeq(stack', 1, m - 1) = SubSeq(stack, 1, m - 1)
                    /\ stack'[m].remaining = stack[m].remaining
                    /\ stack'[m].candidates = stack[m].candidates
                    /\ stack'[m].pos = stack[m].pos + 1
                    /\ assignment' =
                          [g \in DOMAIN assignment \ {shuffled[m]} |->
                              assignment[g]]]_vars

C9_Witness ==
    /\ pc = "backtrack"
    /\ ALLOW_RECIPROCAL
    /\ Len(stack) = 2
    /\ Top.pos = 2
    /\ DOMAIN assignment = {shuffled[1]}

\* The top call has just been entered and has a candidate to try.
FreshCall ==
    /\ pc = "backtrack"
    /\ Top.pos = 1
    /\ Top.candidates # <<>>

\* The search stands at a fresh call whose first candidate is a's choice
\* for the giver, with every earlier giver placed as in a.
Follows(a) ==
    /\ FreshCall
    /\ \A g \in DOMAIN assignment : a[g] = assignment[g]
    /\ Top.candidates[1] = a[GiverOf(Top)]

Produced(a) == pc = "returned" /\ result = a

\* From a state on the way to a, the next placement can stay on the way
\* to a or return a.
CanFollow(a) ==
    Follows(a) =>
        ENABLED ((Place \/ Complete) /\ (Follows(a)' \/ Produced(a)'))

\* C10: every valid assignment is a possible output of generate_pairings:
\* an attempt can start on the way to it, and from every state on the way
\* the next step can stay on the way or return it.
C10_EveryValidProducible ==
    /\ (pc = "generate_pairings" /\ attempts < max_attempts) =>
          \A a \in ValidAssignments :
              ENABLED (Attempt /\ (Follows(a)' \/ Produced(a)'))
    /\ FreshCall => \A a \in ValidAssignments : CanFollow(a)

\* C10, for one call of _find_assignments.
C10_FindProducesEveryValid ==
    /\ pc = "call" =>
          \A a \in ValidAssignments :
              ENABLED (CallFind /\ (Follows(a)' \/ Produced(a)'))
    /\ FreshCall => \A a \in ValidAssignments : CanFollow(a)

C10_FindWitness ==
    /\ PARTICIPANTS = <<"A", "B", "C", "D">>
    /\ FORBIDDEN_PAIRS = <<>>
    /\ ALLOW_RECIPROCAL
    /\ Produced([g \in Participants |->
                    CASE g = "A" -> "B" [] g = "B" -> "A"
                      [] g = "C" -> "D" [] g = "D" -> "C"])

====
